---------------------------- MODULE Spec2Model ----------------------------
(***************************************************************************)
(* Model of the frame pipeline of YOLOVideoApp (src/main.py).              *)
(*                                                                         *)
(* Threads of the program:                                                 *)
(*   - the GUI thread, which runs the button callbacks                     *)
(*     upload_video_dialog, start_video_task, toggle_pause_task and        *)
(*     stop_video_task, one at a time;                                     *)
(*   - one start_video thread per accepted click on "Start Video";         *)
(*   - one receive_frames thread and one display_frames thread per         *)
(*     start_video thread that found a video path.                         *)
(* All of them share the attributes of the single YOLOVideoApp object.     *)
(* Every read or write of a shared attribute is a step of its own; what a  *)
(* thread does on its locals only is folded into the neighbouring step.    *)
(***************************************************************************)
EXTENDS Integers, Sequences, FiniteSets

(* ------------------------------ bounds -------------------------------- *)

\* number of start_video threads the GUI thread may spawn in one behaviour
MaxStarts == 2

\* number of button callbacks the GUI thread runs in one behaviour
MaxClicks == 4

\* number of frames read from all captures together in one behaviour
MaxFrames == 2

\* number of frames in a video file that opens
VideoLen == 2

\* skip_frames is a constructor argument; the model tries 1..MaxSkip
MaxSkip == 2

\* largest number of boxes the detector returns for one frame
MaxBoxes == 1

\* maxsize of self.queue.  The program sets 10 (main.py:28); nothing else in
\* it depends on the number, and the model explores a reduced capacity.
QueueMaxsize == 1

(* ----------------------------- constants ------------------------------ *)

Runs == 1..MaxStarts

\* self.video_path: None / "" (dialog cancelled) are both falsy and are one
\* value here; a selected file either opens or does not.
NoPath == "none"
GoodPath == "good.mp4"
BadPath == "bad.mp4"
Paths == {NoPath, GoodPath, BadPath}

\* no frame held in a local
NoFrame == 0

VARIABLES
    \* attributes of YOLOVideoApp
    skip_frames,     \* self.skip_frames
    frame_counter,   \* self.frame_counter
    queue,           \* self.queue, oldest frame first
    running,         \* self.running
    paused,          \* self.paused
    video_path,      \* self.video_path
    detections,      \* self.detections
    \* start_video threads
    clicks,          \* button callbacks run so far
    nstart,          \* how many were spawned
    spc,             \* position of each
    \* receive_frames threads
    rpc,             \* position of each
    capOpen,         \* cap holds an opened file
    rpos,            \* frames cap has delivered
    rframe,          \* local frame (NoFrame when none)
    \* display_frames threads
    dpc,             \* position of each
    dframe,          \* local frame
    dtmp,            \* the value of self.frame_counter loaded by +=
    dres,            \* number of boxes in results
    didx,            \* boxes appended so far
    \* history, for stating properties only
    nextSeq,         \* number the next frame read gets
    hist             \* record of observations, see HistInit

prog == <<skip_frames, frame_counter, queue, running, paused, video_path,
          detections, clicks, nstart, spc, rpc, capOpen, rpos, rframe,
          dpc, dframe, dtmp, dres, didx>>
vars == <<prog, nextSeq, hist>>


(* --------------------------- library pieces --------------------------- *)

\* queue.Queue.full(): maxsize items are held
QueueFull(q) == Len(q) >= QueueMaxsize

\* queue.Queue.empty()
QueueEmpty(q) == Len(q) = 0

\* a put that never waits, as on a queue built without maxsize
PutReady_Unbounded(q) == TRUE

\* queue.Queue.put(item) with block=True returns only once a slot is free
PutReady(q) == Len(q) < QueueMaxsize

\* queue.Queue.get() with block=True returns only once an item is there
GetReady(q) == Len(q) > 0

\* what put leaves in the queue
QueuePut(q, f) == Append(q, f)

\* cap.read() on a capture at position pos: ret is True while the opened
\* file has a frame left
ReadOk(open, pos) == open /\ pos < VideoLen

\* the test of line 125: the frame is passed on to the model
Forwarded(counter, k) == counter % k = 0

\* the detection appended for box b of frame f (label and confidence are
\* opaque; frame and box number identify the entry)
Detection(f, b) == <<f, b>>

\* the whole list lines 130-135 build for a frame with n boxes
FullList(f, n) == [b \in 1..n |-> Detection(f, b)]

(* ------------------------------ history ------------------------------- *)

HistInit ==
    [ winOK    |-> TRUE,    \* no get since the queue was last empty and idle
      winReads |-> <<>>,    \* frames read since then, in read order
      winDrops |-> 0,       \* frames among them dropped on a full queue
      pending  |-> <<>>,    \* frames put and not yet taken, in put order
      lastFwd  |-> NoFrame, \* frame most recently passed to the model
      runDeq   |-> 0,       \* frames taken since running was last set True
      dposn    |-> [i \in Runs |-> 0],      \* position of the held frame
      pReads   |-> [i \in Runs |-> 0],      \* frames read while paused
      pPuts    |-> [i \in Runs |-> 0],      \* frames put while paused
      rStopped |-> [i \in Runs |-> FALSE],  \* a stop came while it lived
      dStopped |-> [i \in Runs |-> FALSE],
      rExit    |-> [i \in Runs |-> "none"] ] \* how receive_frames ended:
                                             \* "stop", "eof" or "noopen"

\* s without its first element equal to x
RECURSIVE Without(_, _)
Without(s, x) ==
    IF s = <<>> THEN <<>>
    ELSE IF Head(s) = x THEN Tail(s)
    ELSE <<Head(s)>> \o Without(Tail(s), x)

(* --------------------------- initial state ---------------------------- *)

Init ==
    /\ skip_frames \in 1..MaxSkip
    /\ frame_counter = 0
    /\ queue = <<>>
    /\ running = FALSE
    /\ paused = FALSE
    /\ video_path = NoPath
    /\ detections = <<>>
    /\ clicks = 0
    /\ nstart = 0
    /\ spc = [i \in Runs |-> "none"]
    /\ rpc = [i \in Runs |-> "none"]
    /\ capOpen = [i \in Runs |-> FALSE]
    /\ rpos = [i \in Runs |-> 0]
    /\ rframe = [i \in Runs |-> NoFrame]
    /\ dpc = [i \in Runs |-> "none"]
    /\ dframe = [i \in Runs |-> NoFrame]
    /\ dtmp = [i \in Runs |-> 0]
    /\ dres = [i \in Runs |-> 0]
    /\ didx = [i \in Runs |-> 0]
    /\ nextSeq = 1
    /\ hist = HistInit

RAlive(i) == rpc[i] \notin {"none", "done"}
DAlive(i) == dpc[i] \notin {"none", "done", "dead"}

ctl == <<running, paused, video_path>>
starters == <<clicks, nstart, spc>>
rvars == <<rpc, capOpen, rpos, rframe>>
dvars == <<dpc, dframe, dtmp, dres, didx>>

(* ----------------------------- GUI thread ----------------------------- *)

\* upload_video_dialog: the dialog returns the chosen file, or "" on cancel
UploadVideoDialog(p) ==
    /\ clicks < MaxClicks
    /\ clicks' = clicks + 1
    /\ video_path' = p
    /\ UNCHANGED <<skip_frames, frame_counter, queue, running, paused,
                   detections, nstart, spc, rvars, dvars, nextSeq, hist>>

\* start_video_task: spawns a start_video thread unless running is set
StartVideoTask ==
    /\ clicks < MaxClicks
    /\ clicks' = clicks + 1
    /\ ~running
    /\ nstart < MaxStarts
    /\ nstart' = nstart + 1
    /\ spc' = [spc EXCEPT ![nstart + 1] = "check"]
    /\ UNCHANGED <<skip_frames, frame_counter, queue, ctl, detections,
                   rvars, dvars, nextSeq, hist>>

\* line 92: the value toggle_pause_task writes to self.paused
TogglePause(p) == ~p

\* toggle_pause_task
TogglePauseTask ==
    /\ clicks < MaxClicks
    /\ clicks' = clicks + 1
    /\ paused' = TogglePause(paused)
    /\ hist' = [hist EXCEPT !.pReads = [i \in Runs |-> 0],
                            !.pPuts = [i \in Runs |-> 0]]
    /\ UNCHANGED <<skip_frames, frame_counter, queue, running, video_path,
                   detections, nstart, spc, rvars, dvars, nextSeq>>

\* stop_video_task.  Its two writes are one step: a thread that reads paused
\* between them reads what it would have read just before the click.
StopVideoTask ==
    /\ clicks < MaxClicks
    /\ clicks' = clicks + 1
    /\ running' = FALSE
    /\ paused' = FALSE
    /\ hist' = [hist EXCEPT !.pReads = [i \in Runs |-> 0],
                            !.pPuts = [i \in Runs |-> 0],
                            !.rStopped = [i \in Runs |-> RAlive(i)],
                            !.dStopped = [i \in Runs |-> DAlive(i)]]
    /\ UNCHANGED <<skip_frames, frame_counter, queue, video_path,
                   detections, nstart, spc, rvars, dvars, nextSeq>>

(* ------------------------- start_video thread ------------------------- *)

\* a start_video that goes on whatever self.video_path holds
StartVideoCheck_NoTest(i) ==
    /\ spc[i] = "check"
    /\ spc' = [spc EXCEPT ![i] = "setrun"]
    /\ UNCHANGED <<skip_frames, frame_counter, queue, ctl, detections,
                   clicks, nstart, rvars, dvars, nextSeq, hist>>

\* line 150: return when no video is selected
StartVideoCheck(i) ==
    /\ spc[i] = "check"
    /\ spc' = [spc EXCEPT ![i] = IF video_path = NoPath THEN "done"
                                 ELSE "setrun"]
    /\ UNCHANGED <<skip_frames, frame_counter, queue, ctl, detections,
                   clicks, nstart, rvars, dvars, nextSeq, hist>>

\* line 154
StartVideoSetRunning(i) ==
    /\ spc[i] = "setrun"
    /\ running' = TRUE
    /\ spc' = [spc EXCEPT ![i] = "setpause"]
    /\ hist' = [hist EXCEPT !.runDeq = 0]
    /\ UNCHANGED <<skip_frames, frame_counter, queue, paused, video_path,
                   detections, clicks, nstart, rvars, dvars, nextSeq>>

\* line 155
StartVideoSetPaused(i) ==
    /\ spc[i] = "setpause"
    /\ paused' = FALSE
    /\ spc' = [spc EXCEPT ![i] = "spawn"]
    /\ hist' = [hist EXCEPT !.pReads = [j \in Runs |-> 0],
                            !.pPuts = [j \in Runs |-> 0]]
    /\ UNCHANGED <<skip_frames, frame_counter, queue, running, video_path,
                   detections, clicks, nstart, rvars, dvars, nextSeq>>

\* lines 156-159: both worker threads are started
StartVideoSpawn(i) ==
    /\ spc[i] = "spawn"
    /\ spc' = [spc EXCEPT ![i] = "done"]
    /\ rpc' = [rpc EXCEPT ![i] = "open"]
    /\ dpc' = [dpc EXCEPT ![i] = "loop"]
    /\ UNCHANGED <<skip_frames, frame_counter, queue, ctl, detections,
                   clicks, nstart, capOpen, rpos, rframe, dframe, dtmp, dres, didx,
                   nextSeq, hist>>

(* ------------------------ receive_frames thread ------------------------ *)

\* line 103: cap = cv2.VideoCapture(self.video_path); the constructor does
\* not raise on a file it cannot open, the capture is then just not opened
ReceiveOpen(i) ==
    /\ rpc[i] = "open"
    /\ capOpen' = [capOpen EXCEPT ![i] = (video_path = GoodPath)]
    /\ rpc' = [rpc EXCEPT ![i] = "loop"]
    /\ UNCHANGED <<skip_frames, frame_counter, queue, ctl, detections,
                   starters, rpos, rframe, dvars, nextSeq, hist>>

\* a thread that ends without releasing its capture
ReceiveExit_NoRelease(i) ==
    /\ rpc' = [rpc EXCEPT ![i] = "done"]
    /\ UNCHANGED capOpen

\* line 115: cap.release(), after which the thread ends.  The capture is
\* the thread's own, so the release is part of the step that leaves the loop.
ReceiveExit(i) ==
    /\ capOpen' = [capOpen EXCEPT ![i] = FALSE]
    /\ rpc' = [rpc EXCEPT ![i] = "done"]

\* line 104: while self.running
ReceiveLoop(i) ==
    /\ rpc[i] = "loop"
    /\ IF running
       THEN /\ rpc' = [rpc EXCEPT ![i] = "pause"]
            /\ UNCHANGED <<capOpen, hist>>
       ELSE /\ ReceiveExit(i)
            /\ hist' = [hist EXCEPT !.rStopped[i] = FALSE,
                                    !.rExit[i] = "stop"]
    /\ UNCHANGED <<skip_frames, frame_counter, queue, ctl, detections,
                   starters, rpos, rframe, dvars, nextSeq>>

\* a loop that reads on whatever self.paused holds
PauseBranch_Ignored(p) == "read"

\* the branch line 105 takes on the value of self.paused
PauseBranch(p) == IF p THEN "loop" ELSE "read"

\* lines 105-107: if self.paused: sleep, continue
ReceivePause(i) ==
    /\ rpc[i] = "pause"
    /\ rpc' = [rpc EXCEPT ![i] = PauseBranch(paused)]
    /\ UNCHANGED <<skip_frames, frame_counter, queue, ctl, detections,
                   starters, capOpen, rpos, rframe, dvars, nextSeq, hist>>

\* a receive_frames that clears self.running when its read fails
ReceiveRead_ClearsRunning(i) ==
    /\ rpc[i] = "read"
    /\ ReadOk(capOpen[i], rpos[i]) => nextSeq <= MaxFrames
    /\ IF ReadOk(capOpen[i], rpos[i])
       THEN /\ rpos' = [rpos EXCEPT ![i] = @ + 1]
            /\ nextSeq' = nextSeq + 1
            /\ UNCHANGED <<capOpen, running>>
            /\ IF ~QueueFull(queue)
               THEN /\ rpc' = [rpc EXCEPT ![i] = "put"]
                    /\ rframe' = [rframe EXCEPT ![i] = nextSeq]
               ELSE /\ rpc' = [rpc EXCEPT ![i] = "loop"]
                    /\ UNCHANGED rframe
            /\ hist' = [hist EXCEPT
                 !.winReads = IF hist.winOK THEN Append(@, nextSeq) ELSE @,
                 !.winDrops = IF hist.winOK /\ QueueFull(queue)
                              THEN @ + 1 ELSE @,
                 !.pReads[i] = IF paused THEN @ + 1 ELSE @]
       ELSE /\ ReceiveExit(i)
            /\ running' = FALSE
            /\ hist' = [hist EXCEPT
                 !.rStopped[i] = FALSE,
                 !.rExit[i] = IF capOpen[i] THEN "eof" ELSE "noopen"]
            /\ UNCHANGED <<rframe, rpos, nextSeq>>
    /\ UNCHANGED <<skip_frames, frame_counter, queue, paused, video_path,
                   detections, starters, dvars>>

\* lines 109-113 up to the put: ret, frame = cap.read() on the thread's own
\* capture, then the test "ret and not self.queue.full()".  A failed read
\* (end of the file, a capture that never opened) breaks out of the loop; a
\* frame read on a full queue is let go and the loop goes round.  Frames are
\* numbered in the order they are read; once MaxFrames were read the
\* behaviour is followed no further through a read.
ReceiveRead(i) ==
    /\ rpc[i] = "read"
    /\ ReadOk(capOpen[i], rpos[i]) => nextSeq <= MaxFrames
    /\ IF ReadOk(capOpen[i], rpos[i])
       THEN /\ rpos' = [rpos EXCEPT ![i] = @ + 1]
            /\ nextSeq' = nextSeq + 1
            /\ UNCHANGED capOpen
            /\ IF ~QueueFull(queue)
               THEN /\ rpc' = [rpc EXCEPT ![i] = "put"]
                    /\ rframe' = [rframe EXCEPT ![i] = nextSeq]
               ELSE /\ rpc' = [rpc EXCEPT ![i] = "loop"]
                    /\ UNCHANGED rframe
            /\ hist' = [hist EXCEPT
                 !.winReads = IF hist.winOK THEN Append(@, nextSeq) ELSE @,
                 !.winDrops = IF hist.winOK /\ QueueFull(queue)
                              THEN @ + 1 ELSE @,
                 !.pReads[i] = IF paused THEN @ + 1 ELSE @]
       ELSE /\ ReceiveExit(i)
            /\ hist' = [hist EXCEPT
                 !.rStopped[i] = FALSE,
                 !.rExit[i] = IF capOpen[i] THEN "eof" ELSE "noopen"]
            /\ UNCHANGED <<rframe, rpos, nextSeq>>
    /\ UNCHANGED <<skip_frames, frame_counter, queue, ctl, detections,
                   starters, dvars>>

\* line 111: self.queue.put(frame)
ReceivePut(i) ==
    /\ rpc[i] = "put"
    /\ PutReady(queue)
    /\ queue' = QueuePut(queue, rframe[i])
    /\ rframe' = [rframe EXCEPT ![i] = NoFrame]
    /\ rpc' = [rpc EXCEPT ![i] = "loop"]
    /\ hist' = [hist EXCEPT !.pending = Append(@, rframe[i]),
                            !.pPuts[i] = IF paused THEN @ + 1 ELSE @]
    /\ UNCHANGED <<skip_frames, frame_counter, ctl, detections, starters,
                   capOpen, rpos, dvars, nextSeq>>

(* ------------------------ display_frames thread ------------------------ *)

\* line 119: while self.running
DisplayLoop(i) ==
    /\ dpc[i] = "loop"
    /\ dpc' = [dpc EXCEPT ![i] = IF running THEN "empty" ELSE "done"]
    /\ hist' = [hist EXCEPT !.dStopped[i] = running /\ @]
    /\ UNCHANGED <<skip_frames, frame_counter, queue, ctl, detections,
                   starters, rvars, dframe, dtmp, dres, didx, nextSeq>>

\* line 120: if not self.queue.empty()
DisplayEmpty(i) ==
    /\ dpc[i] = "empty"
    /\ dpc' = [dpc EXCEPT ![i] = IF ~QueueEmpty(queue) THEN "get" ELSE "loop"]
    /\ UNCHANGED <<skip_frames, frame_counter, queue, ctl, detections,
                   starters, rvars, dframe, dtmp, dres, didx, nextSeq, hist>>

\* no receive_frames thread holds a frame it has read and not yet put
NoFrameInFlight == \A j \in Runs : rframe[j] = NoFrame

\* line 121: frame = self.queue.get()
DisplayGet(i) ==
    /\ dpc[i] = "get"
    /\ GetReady(queue)
    /\ dframe' = [dframe EXCEPT ![i] = Head(queue)]
    /\ queue' = Tail(queue)
    /\ dpc' = [dpc EXCEPT ![i] = "load"]
    /\ hist' = [hist EXCEPT
         !.winOK = (Len(queue) = 1 /\ NoFrameInFlight),
         !.winReads = <<>>,
         !.winDrops = 0,
         !.pending = Without(@, Head(queue)),
         !.runDeq = @ + 1,
         !.dposn[i] = hist.runDeq + 1]
    /\ UNCHANGED <<skip_frames, frame_counter, ctl, detections, starters,
                   rvars, dtmp, dres, didx, nextSeq>>

\* line 124, first half: the += loads self.frame_counter
DisplayLoad(i) ==
    /\ dpc[i] = "load"
    /\ dtmp' = [dtmp EXCEPT ![i] = frame_counter]
    /\ dpc' = [dpc EXCEPT ![i] = "store"]
    /\ UNCHANGED <<skip_frames, frame_counter, queue, ctl, detections,
                   starters, rvars, dframe, dres, didx, nextSeq, hist>>

\* line 124, second half: the += stores the sum
DisplayStore(i) ==
    /\ dpc[i] = "store"
    /\ frame_counter' = dtmp[i] + 1
    /\ dtmp' = [dtmp EXCEPT ![i] = 0]
    /\ dpc' = [dpc EXCEPT ![i] = "mod"]
    /\ UNCHANGED <<skip_frames, queue, ctl, detections, starters, rvars,
                   dframe, dres, didx, nextSeq, hist>>

\* lines 125-126: a frame whose counter value is no multiple of skip_frames
\* is let go and the loop goes round
DisplaySkip(i) ==
    /\ dpc[i] = "mod"
    /\ ~Forwarded(frame_counter, skip_frames)
    /\ dpc' = [dpc EXCEPT ![i] = "loop"]
    /\ dframe' = [dframe EXCEPT ![i] = NoFrame]
    /\ hist' = [hist EXCEPT !.dposn[i] = 0]
    /\ UNCHANGED <<skip_frames, frame_counter, queue, ctl, detections,
                   starters, rvars, dtmp, dres, didx, nextSeq>>

\* lines 125-129: the frame is passed to the model, results = self.model(
\* frame), which returns some number of boxes
DisplayDetect(i) ==
    /\ dpc[i] = "mod"
    /\ Forwarded(frame_counter, skip_frames)
    /\ \E n \in 0..MaxBoxes : dres' = [dres EXCEPT ![i] = n]
    /\ dpc' = [dpc EXCEPT ![i] = "reset"]
    /\ hist' = [hist EXCEPT !.lastFwd = dframe[i], !.dposn[i] = 0]
    /\ UNCHANGED <<skip_frames, frame_counter, queue, ctl, detections,
                   starters, rvars, dframe, dtmp, didx, nextSeq>>

\* a loop that empties self.detections before it calls the model
DisplayDetectRaises_AfterReset(i) ==
    /\ dpc[i] = "mod"
    /\ Forwarded(frame_counter, skip_frames)
    /\ dpc' = [dpc EXCEPT ![i] = "dead"]
    /\ dframe' = [dframe EXCEPT ![i] = NoFrame]
    /\ detections' = <<>>
    /\ hist' = [hist EXCEPT !.lastFwd = dframe[i], !.dposn[i] = 0,
                            !.dStopped[i] = FALSE]
    /\ UNCHANGED <<skip_frames, frame_counter, queue, ctl,
                   starters, rvars, dtmp, dres, didx, nextSeq>>

\* lines 125-129 with the model raising: nothing in display_frames catches
\* the exception, so the thread ends
DisplayDetectRaises(i) ==
    /\ dpc[i] = "mod"
    /\ Forwarded(frame_counter, skip_frames)
    /\ dpc' = [dpc EXCEPT ![i] = "dead"]
    /\ dframe' = [dframe EXCEPT ![i] = NoFrame]
    /\ hist' = [hist EXCEPT !.lastFwd = dframe[i], !.dposn[i] = 0,
                            !.dStopped[i] = FALSE]
    /\ UNCHANGED <<skip_frames, frame_counter, queue, ctl, detections,
                   starters, rvars, dtmp, dres, didx, nextSeq>>

\* the end of one pass of the loop body (lines 137-146 touch the label only)
DisplayNext(i) ==
    /\ dpc' = [dpc EXCEPT ![i] = "loop"]
    /\ dframe' = [dframe EXCEPT ![i] = NoFrame]
    /\ dres' = [dres EXCEPT ![i] = 0]
    /\ didx' = [didx EXCEPT ![i] = 0]

\* line 130: self.detections = []
DisplayReset(i) ==
    /\ dpc[i] = "reset"
    /\ detections' = <<>>
    /\ IF dres[i] = 0
       THEN DisplayNext(i)
       ELSE /\ dpc' = [dpc EXCEPT ![i] = "append"]
            /\ UNCHANGED <<dframe, dres, didx>>
    /\ UNCHANGED <<skip_frames, frame_counter, queue, ctl, starters, rvars,
                   dtmp, nextSeq, hist>>

\* line 135: self.detections.append(...), once per box
DisplayAppend(i) ==
    /\ dpc[i] = "append"
    /\ detections' = Append(detections, Detection(dframe[i], didx[i] + 1))
    /\ IF didx[i] + 1 = dres[i]
       THEN DisplayNext(i)
       ELSE /\ didx' = [didx EXCEPT ![i] = @ + 1]
            /\ UNCHANGED <<dpc, dframe, dres>>
    /\ UNCHANGED <<skip_frames, frame_counter, queue, ctl, starters, rvars,
                   dtmp, nextSeq, hist>>

(* --------------------------- specification ---------------------------- *)

Next ==
    \/ \E p \in Paths : UploadVideoDialog(p)
    \/ StartVideoTask
    \/ TogglePauseTask
    \/ StopVideoTask
    \/ \E i \in Runs : StartVideoCheck(i)
    \/ \E i \in Runs : StartVideoSetRunning(i)
    \/ \E i \in Runs : StartVideoSetPaused(i)
    \/ \E i \in Runs : StartVideoSpawn(i)
    \/ \E i \in Runs : ReceiveOpen(i)
    \/ \E i \in Runs : ReceiveLoop(i)
    \/ \E i \in Runs : ReceivePause(i)
    \/ \E i \in Runs : ReceiveRead(i)
    \/ \E i \in Runs : ReceivePut(i)
    \/ \E i \in Runs : DisplayLoop(i)
    \/ \E i \in Runs : DisplayEmpty(i)
    \/ \E i \in Runs : DisplayGet(i)
    \/ \E i \in Runs : DisplayLoad(i)
    \/ \E i \in Runs : DisplayStore(i)
    \/ \E i \in Runs : DisplaySkip(i)
    \/ \E i \in Runs : DisplayDetect(i)
    \/ \E i \in Runs : DisplayDetectRaises(i)
    \/ \E i \in Runs : DisplayReset(i)
    \/ \E i \in Runs : DisplayAppend(i)

Spec == Init /\ [][Next]_vars

(* ------------------------------ properties ----------------------------- *)

\* C1: in every reachable state the queue holds at most maxsize frames.
C1_QueueBounded == Len(queue) <= QueueMaxsize

\* C1 witness: the queue is full and more frames were read than it holds.
C1_Witness == Len(queue) = QueueMaxsize /\ nextSeq - 1 > QueueMaxsize

\* C2: no receive_frames thread ever waits for room in the queue, that is,
\* none is at its put while the queue is full.
C2_NeverBlocked ==
    \A i \in Runs : ~(rpc[i] = "put" /\ ~PutReady(queue))

\* every frame read and not yet put is held by a thread whose put waits
PutsSettled == \A i \in Runs : rpc[i] = "put" => ~PutReady(queue)

\* C3: when more than maxsize frames were read since the queue was empty
\* and idle, with no get in between, the queue holds exactly the first
\* maxsize of them in read order, and the others were dropped.
C3_DropNewest ==
    (hist.winOK /\ Len(hist.winReads) > QueueMaxsize /\ PutsSettled)
        => /\ queue = SubSeq(hist.winReads, 1, QueueMaxsize)
           /\ hist.winDrops = Len(hist.winReads) - QueueMaxsize

\* C4: every get takes the frame that was put first among those not yet
\* taken, and frames reach the model in the order they were read.
C4_FifoToModel ==
    [][ /\ \A i \in Runs :
             (dpc[i] = "get" /\ dpc'[i] = "load")
                 => dframe'[i] = Head(hist.pending)
        /\ hist.lastFwd' # hist.lastFwd => hist.lastFwd' > hist.lastFwd
      ]_vars

\* C5: a frame taken from the queue is passed to the model exactly when its
\* 1-based position among the frames taken in the run is a multiple of
\* skip_frames (so floor(N / skip_frames) of N frames are passed on).
C5_EveryKth ==
    [][ \A i \in Runs :
          (dpc[i] = "mod" /\ dpc'[i] # "mod")
              => ((dpc'[i] \in {"reset", "dead"})
                    <=> (hist.dposn[i] % skip_frames = 0))
      ]_vars

\* C6 as stated: while paused is set no capture position advances and the
\* queue does not grow.
C6_PausedNoIngest ==
    [][ paused => (rpos' = rpos /\ Len(queue') <= Len(queue)) ]_vars

\* C6 as amended: while paused stays set each receive_frames thread reads
\* at most one frame and puts at most one frame, those of the pass of the
\* loop whose test of paused came before paused was set.
C6_PausedAtMostOne ==
    paused => \A i \in Runs : hist.pReads[i] <= 1 /\ hist.pPuts[i] <= 1

\* C6 witness: a thread has read a frame while paused was set.
C6_Witness == paused /\ \E i \in Runs : hist.pReads[i] = 1

\* C7: while paused is set no display_frames thread takes a frame: the
\* queue does not shrink and frame_counter does not advance.
C7_PausedNoDequeue ==
    [][ paused => (Len(queue') >= Len(queue)
                     /\ frame_counter' = frame_counter) ]_vars

\* C8: a worker thread that was alive when stop_video_task ran leaves its
\* next test of running by ending, whatever is clicked after the stop.
C8_StopEndsWorkers ==
    [][ \A i \in Runs :
          /\ (hist.rStopped[i] /\ rpc[i] = "loop")
                 => rpc'[i] \in {"loop", "done"}
          /\ (hist.dStopped[i] /\ dpc[i] = "loop")
                 => dpc'[i] \in {"loop", "done"}
      ]_vars

\* C9: every capture that is open belongs to a receive_frames thread that
\* has not ended: a thread that ended, on whichever path, released it.
C9_CaptureReleased == \A i \in Runs : capOpen[i] => RAlive(i)

\* C9 witness: a thread has ended after reading from its opened capture.
C9_Witness == \E i \in Runs : rpc[i] = "done" /\ rpos[i] > 0

\* the lists that are the whole result of one frame, and the empty list
CompleteSnapshot(l) ==
    \/ l = <<>>
    \/ \E f \in 1..MaxFrames : l = FullList(f, Len(l))

\* C10: what self.detections holds is at every moment a complete list: the
\* empty list it starts with or the whole result of one frame, never a list
\* some thread is still adding the boxes of its frame to.
C10_SnapshotComplete ==
    /\ \A i \in Runs : dpc[i] # "append"
    /\ CompleteSnapshot(detections)

\* C11: an exception of the model does not end a display_frames thread: no
\* thread is ever ended by one, so it goes on taking frames while running
\* is set.
C11_DetectorFailureNonFatal == \A i \in Runs : dpc[i] # "dead"

\* C12: the step on which the model raises leaves self.detections as it
\* was, the list of the last frame the model returned for or the empty
\* list the object starts with.
C12_FailureKeepsSnapshot ==
    [][ \A i \in Runs :
          (dpc[i] = "mod" /\ dpc'[i] = "dead") => detections' = detections
      ]_vars

\* C12 witness: the model has raised in a thread while self.detections
\* held the boxes of an earlier frame, and it still holds them.
C12_Witness ==
    /\ \E i \in Runs : dpc[i] = "dead"
    /\ detections # <<>>
    /\ \A i \in Runs : dpc[i] \notin {"reset", "append"}

\* C13: a start_video that finds no video selected at its test (line 150)
\* returns there: the step changes neither running nor paused nor the
\* queue and starts no thread, and a start_video that returned there never
\* gets a receive_frames or display_frames thread afterwards.
C13_NoPathNoEffect ==
    [][ \A i \in Runs :
          /\ (spc[i] = "check" /\ spc'[i] # "check" /\ video_path = NoPath)
                 => /\ spc'[i] = "done"
                    /\ running' = running /\ paused' = paused
                    /\ queue' = queue
                    /\ rpc' = rpc /\ dpc' = dpc
          /\ (spc[i] = "done" /\ rpc[i] = "none" /\ dpc[i] = "none")
                 => (spc'[i] = "done" /\ rpc'[i] = "none" /\ dpc'[i] = "none")
      ]_vars

\* C13 witness: a start_video has returned at its test while nothing ran;
\* running is unset and no worker thread exists.
C13_Witness ==
    /\ \E i \in Runs : spc[i] = "done" /\ rpc[i] = "none" /\ dpc[i] = "none"
    /\ ~running
    /\ \A i \in Runs : ~RAlive(i) /\ ~DAlive(i)

\* C14: a start on a path that does not open leaves nothing running: once
\* the receive_frames thread of a start has ended on a capture that never
\* opened, the display_frames thread of that start finds running unset at
\* its next test of it and ends.
C14_BadPathLeavesIdle ==
    [][ \A i \in Runs :
          (hist.rExit[i] = "noopen" /\ dpc[i] = "loop" /\ dpc'[i] # "loop")
              => dpc'[i] = "done"
      ]_vars

\* C15: the pause/resume command is idempotent: once it was issued, issuing
\* it again would leave paused as the first one set it (pause on paused set
\* leaves it set, resume on paused unset leaves it unset).
C15_ToggleIdempotent ==
    [][ TogglePauseTask => TogglePause(paused') = paused' ]_vars

\* C16: when the receive_frames thread of a start has ended at the end of
\* its video, no receive_frames thread is left and the queue is empty, the
\* display_frames thread of that start leaves its next test of running by
\* ending, with no stop_video_task needed.
C16_EndOfStreamEndsDisplay ==
    [][ \A i \in Runs :
          ( /\ hist.rExit[i] = "eof"
            /\ \A j \in Runs : ~RAlive(j)
            /\ QueueEmpty(queue)
            /\ dpc[i] = "loop" /\ dpc'[i] # "loop" )
              => dpc'[i] = "done"
      ]_vars

\* C17: frame_counter is 0 whenever a run begins, that is, on every step
\* that sets running from unset to set (so that the first frame the run
\* passes to the model is the skip_frames-th it takes).
C17_CounterZeroAtStart ==
    [][ (~running /\ running') => frame_counter' = 0 ]_vars

\* C19: at any moment at most one receive_frames thread and at most one
\* display_frames thread are alive.
C19_OneWorkerEach ==
    /\ Cardinality({i \in Runs : RAlive(i)}) <= 1
    /\ Cardinality({i \in Runs : DAlive(i)}) <= 1

\* C18: no step of a receive_frames or display_frames thread changes running
\* or paused, the step on which the thread ends included; every change of
\* either is made by a button callback or by a start_video thread.
C18_WorkersLeaveFlags ==
    [][ /\ (rvars' # rvars \/ dvars' # dvars)
              => (running' = running /\ paused' = paused)
        /\ (running' # running \/ paused' # paused)
              => (clicks' # clicks \/ spc' # spc)
      ]_vars

\* C18 witness: a receive_frames thread has ended at the end of its video
\* and running is still set.
C18_Witness == running /\ \E i \in Runs : hist.rExit[i] = "eof"

\* C20: a run begins with an empty queue: on every step that sets running
\* from unset to set while no worker thread of an earlier start is alive,
\* the queue holds no frame (so none put in an earlier run is taken by the
\* display_frames thread of the new one).
C20_RunStartsEmpty ==
    [][ ( /\ ~running /\ running'
          /\ \A j \in Runs : ~RAlive(j) /\ ~DAlive(j) )
            => QueueEmpty(queue')
      ]_vars
=============================================================================
